---- MODULE Spec2Model ----
(***************************************************************************)
(* Model of the SalesFlow dashboard: the Redux UI slice (store/slices/     *)
(* uiSlice), the root composition (App.tsx), the Layout shell with its     *)
(* theme-to-DOM effect (components/Layout.tsx), the search/status filters  *)
(* of the Products, Clients and Orders pages, and the RTK Query data cache *)
(* configured in store/api/dashboardApi.ts.                                *)
(***************************************************************************)
EXTENDS Integers, Sequences, FiniteSets, TLC

VARIABLES
    ui,               \* state.ui of the Redux store (uiSlice)
    localStorage,     \* window.localStorage, key -> value ("null" = absent)
    documentElement,  \* document.documentElement: 'dark' class and data-theme
    layoutMounted,    \* Layout has been rendered once
    effectDeps,       \* isDarkMode value the Layout theme effect last ran with
    pageLocal,        \* useState values of the mounted page component
    lastEvent,        \* history: the last event that dispatched to the store
    themeSnaps,       \* history: document roots seen at the last settled toggles
    sidebarCalls,     \* history: the sidebar actions dispatched so far
    hooks,            \* query subscriptions: component -> argument and options
    queries,          \* state.dashboardApi.queries: cache key -> entry
    currentPolls,     \* polling middleware: cache key -> pending poll timer
    now,              \* Date.now(), in milliseconds
    requests,         \* network requests sent per cache key so far
    inFlight,         \* requests sent and not yet answered
    removalTimeouts,  \* cache collection: cache key -> removal timer
    lastRequest,      \* the request fetchBaseQuery built last
    image,            \* an ImageWithFallback: props, didError, events seen
    tick              \* the sales chart's last Y-axis tick: value and label

uiVars == <<ui, localStorage, documentElement, layoutMounted, effectDeps,
            lastEvent, themeSnaps>>

\* Variables no Layout handler touches.
cacheVars == <<hooks, queries, currentPolls, now, requests, inFlight,
              removalTimeouts>>

\* The request builder and the image component, on their own.
componentVars == <<lastRequest, image, tick>>

others == <<sidebarCalls, cacheVars, componentVars>>

vars == <<uiVars, pageLocal, others>>

NULL == "null"

(***************************************************************************)
(* App.tsx: PageType and the page lookup table                             *)
(***************************************************************************)
PageType ==
    {"dashboard", "orders", "products", "clients", "reports", "settings",
     "design-system"}

\* Values a caller of store.dispatch(setCurrentPage(x)) can pass at run time
\* that are not page ids: a plain unknown string, and names that every
\* JavaScript object inherits from Object.prototype.
ObjectPrototypeKeys == {"constructor", "toString"}

PageInputs == PageType \cup {"unknown-page"} \cup ObjectPrototypeKeys

\* Own properties of the PAGE_COMPONENTS object literal.
PAGE_COMPONENTS ==
    [p \in PageType |->
        CASE p = "dashboard"     -> "Dashboard"
          [] p = "orders"        -> "Orders"
          [] p = "products"      -> "Products"
          [] p = "clients"       -> "Clients"
          [] p = "reports"       -> "Reports"
          [] p = "settings"      -> "Settings"
          [] p = "design-system" -> "DesignSystem"]

PageComponents == {PAGE_COMPONENTS[p] : p \in PageType}

\* JavaScript property read PAGE_COMPONENTS[key]: an own property, else the
\* member inherited from Object.prototype, else undefined.
GetProperty(key) ==
    IF key \in DOMAIN PAGE_COMPONENTS THEN PAGE_COMPONENTS[key]
    ELSE IF key \in ObjectPrototypeKeys THEN "Object.prototype." \o key
    ELSE "undefined"

\* PAGE_COMPONENTS[currentPage] ?? PAGE_COMPONENTS.dashboard
PageComponent(currentPage) ==
    IF GetProperty(currentPage) \in {"undefined", NULL}
    THEN PAGE_COMPONENTS["dashboard"]
    ELSE GetProperty(currentPage)

\* <PageComponent />: a page component renders its page; Object (the inherited
\* constructor) returns its props object, which React rejects as a child with
\* an error; Object.prototype.toString returns a string, rendered as bare text.
currentPageComponent(currentPage) ==
    LET C == PageComponent(currentPage) IN
    IF C \in PageComponents THEN [kind |-> "page", component |-> C]
    ELSE IF C = "Object.prototype.constructor"
         THEN [kind |-> "error", component |-> C]
         ELSE [kind |-> "text", component |-> C]

(***************************************************************************)
(* store/slices/uiSlice: initial state and reducers                        *)
(***************************************************************************)
\* Variant: the theme flag rehydrated from local storage at start-up.
initialState_rehydrated ==
    [currentPage |-> "dashboard", sidebarCollapsed |-> FALSE,
     isDarkMode |-> (localStorage["theme"] = "dark"), mobileMenuOpen |-> FALSE]

initialState ==
    [currentPage |-> "dashboard", sidebarCollapsed |-> FALSE,
     isDarkMode |-> FALSE, mobileMenuOpen |-> FALSE]

\* Variant: navigating also closes the mobile menu inside the reducer.
setCurrentPage_closingMenu(state, payload) ==
    [state EXCEPT !.currentPage = payload, !.mobileMenuOpen = FALSE]

setCurrentPage(state, payload) == [state EXCEPT !.currentPage = payload]

\* Variant: the toggle only ever collapses.
toggleSidebar_collapseOnly(state) == [state EXCEPT !.sidebarCollapsed = TRUE]

toggleSidebar(state) ==
    [state EXCEPT !.sidebarCollapsed = ~state.sidebarCollapsed]

setSidebarCollapsed(state, payload) ==
    [state EXCEPT !.sidebarCollapsed = payload]

toggleTheme(state) == [state EXCEPT !.isDarkMode = ~state.isDarkMode]

setTheme(state, payload) == [state EXCEPT !.isDarkMode = payload]

toggleMobileMenu(state) ==
    [state EXCEPT !.mobileMenuOpen = ~state.mobileMenuOpen]

setMobileMenuOpen(state, payload) ==
    [state EXCEPT !.mobileMenuOpen = payload]

NoPayload == "-"

\* The action objects the slice's action creators build.
UIActions ==
    [type : {"setCurrentPage"}, payload : PageInputs]
    \cup [type : {"setSidebarCollapsed", "setTheme", "setMobileMenuOpen"},
          payload : BOOLEAN]
    \cup [type : {"toggleSidebar", "toggleTheme", "toggleMobileMenu"},
          payload : {NoPayload}]

Action(type, payload) == [type |-> type, payload |-> payload]

\* uiSlice.reducer
uiReducer(state, action) ==
    CASE action.type = "setCurrentPage" -> setCurrentPage(state, action.payload)
      [] action.type = "toggleSidebar" -> toggleSidebar(state)
      [] action.type = "setSidebarCollapsed" ->
            setSidebarCollapsed(state, action.payload)
      [] action.type = "toggleTheme" -> toggleTheme(state)
      [] action.type = "setTheme" -> setTheme(state, action.payload)
      [] action.type = "toggleMobileMenu" -> toggleMobileMenu(state)
      [] action.type = "setMobileMenuOpen" ->
            setMobileMenuOpen(state, action.payload)

(***************************************************************************)
(* components/Layout.tsx: theme effect and handlers                        *)
(***************************************************************************)
\* Variant: the list carries an item whose id is not a page id.
navigationItems_withAnalytics ==
    <<"dashboard", "orders", "products", "clients", "reports", "settings",
      "analytics">>

navigationItems ==
    <<"dashboard", "orders", "products", "clients", "reports", "settings">>

\* The ids a navigation button passes to onPageChange: the six items of
\* navigationItems and the separate Design System link.
NavIds == {navigationItems[i] : i \in DOMAIN navigationItems}
            \cup {"design-system"}

\* Variant: the active button is the one of the component that is rendered.
ActiveItems_byComponent(currentPage) ==
    {id \in NavIds : PAGE_COMPONENTS[id] = PageComponent(currentPage)}

\* The navigation buttons drawn as active: isActive = currentPage === item.id
\* for the items, currentPage === 'design-system' for the separate link.
ActiveItems(currentPage) == {id \in NavIds : currentPage = id}

\* Variant: the effect adds the class but never removes it.
ThemeSync_neverRemoves(isDarkMode) ==
    [classDark |-> (isDarkMode \/ documentElement.classDark),
     dataTheme |-> IF isDarkMode THEN "dark" ELSE "light"]

\* What the effect body writes for a given isDarkMode.
ThemeSync(isDarkMode) ==
    [classDark |-> isDarkMode,
     dataTheme |-> IF isDarkMode THEN "dark" ELSE "light"]

Settled == layoutMounted /\ effectDeps = ui.isDarkMode

Event(type, arg) == [type |-> type, arg |-> arg]

\* History of the document roots at the latest theme toggles that started
\* from a settled state (at most two are kept).
PushSnap(snaps) ==
    IF Settled
    THEN IF Len(snaps) < 2 THEN Append(snaps, documentElement)
         ELSE <<snaps[2], documentElement>>
    ELSE <<>>

SnapsAfter(action) ==
    CASE action.type = "toggleTheme" -> PushSnap(themeSnaps)
      [] action.type = "setTheme" -> <<>>
      [] OTHER -> themeSnaps

\* useState initial values of the page components: searchQuery "" (the empty
\* sequence of characters), statusFilter "all", selected record null.
initialPageLocal ==
    [searchQuery |-> <<>>, statusFilter |-> <<"a", "l", "l">>,
     selected |-> NULL]

\* The store update of a handler and the re-render it causes: App keeps the
\* page element while the resolved component is the same and replaces it
\* (fresh useState values) when currentPage resolves to another component.
Dispatched(newUi, event, snaps) ==
    /\ ui' = newUi
    /\ lastEvent' = event
    /\ themeSnaps' = snaps
    /\ pageLocal' = IF PageComponent(newUi.currentPage)
                        = PageComponent(ui.currentPage)
                     THEN pageLocal ELSE initialPageLocal
    /\ UNCHANGED <<localStorage, documentElement, layoutMounted, effectDeps>>
    /\ UNCHANGED others

\* store.dispatch(action) from any caller
StoreDispatch(action) ==
    Dispatched(uiReducer(ui, action), Event(action.type, action.payload),
               SnapsAfter(action))

\* First render of <App/>: Layout mounts and its effect runs once.
Mount ==
    /\ ~layoutMounted
    /\ layoutMounted' = TRUE
    /\ documentElement' = ThemeSync(ui.isDarkMode)
    /\ effectDeps' = ui.isDarkMode
    /\ UNCHANGED <<ui, localStorage, lastEvent, themeSnaps, pageLocal>>
    /\ UNCHANGED others

\* Render pass after a store change: useEffect(..., [isDarkMode]) runs when
\* isDarkMode differs from the value of the previous run.
RenderPass ==
    /\ layoutMounted
    /\ effectDeps # ui.isDarkMode
    /\ documentElement' = ThemeSync(ui.isDarkMode)
    /\ effectDeps' = ui.isDarkMode
    /\ UNCHANGED <<ui, localStorage, layoutMounted, lastEvent, themeSnaps,
                   pageLocal>>
    /\ UNCHANGED others

\* App.handlePageChange, reached from a desktop sidebar button
DesktopNavClick(id) ==
    /\ layoutMounted
    /\ Dispatched(uiReducer(ui, Action("setCurrentPage", id)),
                  Event("desktopNavClick", id), themeSnaps)

\* Variant: the mobile button navigates like the desktop one, without
\* closing the overlay.
MobileNavClick_noClose(id) ==
    /\ layoutMounted
    /\ Dispatched(uiReducer(ui, Action("setCurrentPage", id)),
                  Event("mobileNavClick", id), themeSnaps)

\* Mobile menu button: onPageChange(id); handleCloseMobileMenu()
MobileNavClick(id) ==
    /\ layoutMounted
    /\ Dispatched(uiReducer(uiReducer(ui, Action("setCurrentPage", id)),
                            Action("setMobileMenuOpen", FALSE)),
                  Event("mobileNavClick", id), themeSnaps)

\* Click on the mobile overlay: handleCloseMobileMenu
OverlayClick ==
    /\ layoutMounted
    /\ Dispatched(uiReducer(ui, Action("setMobileMenuOpen", FALSE)),
                  Event("overlayClick", NoPayload), themeSnaps)

handleSidebarToggle ==
    /\ layoutMounted
    /\ Dispatched(uiReducer(ui, Action("toggleSidebar", NoPayload)),
                  Event("handleSidebarToggle", NoPayload), themeSnaps)

handleThemeToggle ==
    /\ layoutMounted
    /\ Dispatched(uiReducer(ui, Action("toggleTheme", NoPayload)),
                  Event("handleThemeToggle", NoPayload), PushSnap(themeSnaps))

handleMobileMenuToggle ==
    /\ layoutMounted
    /\ Dispatched(uiReducer(ui, Action("toggleMobileMenu", NoPayload)),
                  Event("handleMobileMenuToggle", NoPayload), themeSnaps)

(***************************************************************************)
(* lib/theme-utils: the theme read from and written to the document root   *)
(***************************************************************************)
\* getCurrentTheme: classList.contains('dark') ? 'dark' : 'light'
getCurrentTheme(root) == IF root.classDark THEN "dark" ELSE "light"

\* Variant of the class update: the class is added and never removed.
toggleClass_addOnly(root) == [root EXCEPT !.classDark = TRUE]

\* The class update of theme-utils toggleTheme: remove 'dark' when the
\* current theme is dark, add it otherwise. Nothing else of the root is
\* written.
toggleClass(root) ==
    IF getCurrentTheme(root) = "dark"
    THEN [root EXCEPT !.classDark = FALSE]
    ELSE [root EXCEPT !.classDark = TRUE]

\* A call of theme-utils toggleTheme(), from any module at any time; the
\* event records the value the call returned, getCurrentTheme() read after
\* the update.
utilsToggleTheme ==
    /\ documentElement' = toggleClass(documentElement)
    /\ lastEvent' = Event("theme-utils.toggleTheme",
                          getCurrentTheme(toggleClass(documentElement)))
    /\ UNCHANGED <<ui, localStorage, layoutMounted, effectDeps, themeSnaps,
                   pageLocal>>
    /\ UNCHANGED others

(***************************************************************************)
(* pages/Dashboard: formatToK, the tick formatter of the sales chart       *)
(***************************************************************************)
\* Number.prototype.toString of a non-negative integer
toString(value) == ToString(value)

\* Bits of the integer part of a double that is at least 1
RECURSIVE BitLength(_)
BitLength(n) == IF n < 2 THEN 1 ELSE 1 + BitLength(n \div 2)

\* (r * 2^k) % 1000: the remainder of the long division value / 1000 after
\* k binary digits of the fraction
RECURSIVE Remainder(_, _)
Remainder(r, k) == IF k = 0 THEN r ELSE Remainder((2 * r) % 1000, k - 1)

\* The double value / 1000 keeps 53 significant bits. TRUE when it is not
\* below the exact quotient: the digits cut off are none, or more than half
\* a unit of the last bit kept.
QuotientNotBelow(value) ==
    LET r == Remainder(value % 1000, 53 - BitLength(value \div 1000))
    IN r = 0 \/ 2 * r > 1000

\* kValue.toFixed(1) for kValue = value / 1000: the tenths nearest to the
\* double, the larger of two equally near, written with one decimal digit.
toFixed(value) ==
    LET tenths == value \div 100
        rest == value % 100
        n == IF rest > 50 \/ (rest = 50 /\ QuotientNotBelow(value))
             THEN tenths + 1 ELSE tenths
    IN [int |-> ToString(n \div 10), frac |-> ToString(n % 10)]

\* formatToK: `${kValue}K` for whole thousands, else
\* kValue.toFixed(1).replace('.', ',') + 'K'; value.toString() below 1000.
formatToK(value) ==
    IF value >= 1000
    THEN IF value % 1000 = 0
         THEN toString(value \div 1000) \o "K"
         ELSE toFixed(value).int \o "," \o toFixed(value).frac \o "K"
    ELSE toString(value)

\* The integer values the Y axis of the sales chart is asked to format.
MaxTickValue == 12000

TickValues == 0..MaxTickValue

\* The axis is drawn from the bottom up: a tick is drawn again (0) or the
\* next one lies higher by one of these amounts.
TickSteps == {0, 1, 50, 500, 1000}

NoTick == [value |-> 0, label |-> NULL]

\* The chart renders a Y-axis tick: tickFormatter={formatToK}
FormatTick(value) ==
    /\ tick' = [value |-> value, label |-> formatToK(value)]
    /\ UNCHANGED <<uiVars, pageLocal, sidebarCalls, cacheVars, lastRequest,
                   image>>

(***************************************************************************)
(* Page components: mock datasets and filters (pages/Orders, Products,     *)
(* Clients).  Strings are sequences of one-character strings; the records  *)
(* keep the fields the filters read.                                       *)
(***************************************************************************)
ordersData ==
    <<[id |-> <<"O", "R", "D", "-", "0", "0", "1", "2", "3", "4">>,
       customer |-> <<"S", "a", "r", "a", "h", " ", "J", "o", "h", "n", "s",
          "o", "n">>,
       status |-> <<"D", "e", "l", "i", "v", "e", "r", "e", "d">>],
      [id |-> <<"O", "R", "D", "-", "0", "0", "1", "2", "3", "5">>,
       customer |-> <<"M", "i", "c", "h", "a", "e", "l", " ", "C", "h", "e",
          "n">>,
       status |-> <<"P", "e", "n", "d", "i", "n", "g">>],
      [id |-> <<"O", "R", "D", "-", "0", "0", "1", "2", "3", "6">>,
       customer |-> <<"E", "m", "i", "l", "y", " ", "D", "a", "v", "i", "s">>,
       status |-> <<"D", "e", "l", "i", "v", "e", "r", "e", "d">>],
      [id |-> <<"O", "R", "D", "-", "0", "0", "1", "2", "3", "7">>,
       customer |-> <<"J", "a", "m", "e", "s", " ", "W", "i", "l", "s", "o",
          "n">>,
       status |-> <<"F", "a", "i", "l", "e", "d">>],
      [id |-> <<"O", "R", "D", "-", "0", "0", "1", "2", "3", "8">>,
       customer |-> <<"A", "m", "a", "n", "d", "a", " ", "B", "r", "o", "w",
          "n">>,
       status |-> <<"P", "r", "o", "c", "e", "s", "s", "i", "n", "g">>],
      [id |-> <<"O", "R", "D", "-", "0", "0", "1", "2", "3", "9">>,
       customer |-> <<"R", "o", "b", "e", "r", "t", " ", "T", "a", "y", "l",
          "o", "r">>,
       status |-> <<"D", "e", "l", "i", "v", "e", "r", "e", "d">>],
      [id |-> <<"O", "R", "D", "-", "0", "0", "1", "2", "4", "0">>,
       customer |-> <<"L", "i", "s", "a", " ", "M", "a", "r", "t", "i", "n",
          "e", "z">>,
       status |-> <<"P", "e", "n", "d", "i", "n", "g">>],
      [id |-> <<"O", "R", "D", "-", "0", "0", "1", "2", "4", "1">>,
       customer |-> <<"D", "a", "v", "i", "d", " ", "A", "n", "d", "e", "r",
          "s", "o", "n">>,
       status |-> <<"D", "e", "l", "i", "v", "e", "r", "e", "d">>]>>

productsData ==
    <<[id |-> <<"P", "R", "D", "-", "0", "0", "1">>,
       name |-> <<"P", "r", "e", "m", "i", "u", "m", " ", "W", "i", "r", "e",
          "l", "e", "s", "s", " ", "H", "e", "a", "d", "p", "h", "o", "n",
          "e", "s">>,
       category |-> <<"E", "l", "e", "c", "t", "r", "o", "n", "i", "c", "s">>],
      [id |-> <<"P", "R", "D", "-", "0", "0", "2">>,
       name |-> <<"S", "m", "a", "r", "t", " ", "W", "a", "t", "c", "h", " ",
          "S", "e", "r", "i", "e", "s", " ", "5">>,
       category |-> <<"E", "l", "e", "c", "t", "r", "o", "n", "i", "c", "s">>],
      [id |-> <<"P", "R", "D", "-", "0", "0", "3">>,
       name |-> <<"L", "a", "p", "t", "o", "p", " ", "S", "t", "a", "n", "d",
          " ", "P", "r", "o">>,
       category |-> <<"A", "c", "c", "e", "s", "s", "o", "r", "i", "e", "s">>],
      [id |-> <<"P", "R", "D", "-", "0", "0", "4">>,
       name |-> <<"4", "K", " ", "W", "e", "b", "c", "a", "m">>,
       category |-> <<"E", "l", "e", "c", "t", "r", "o", "n", "i", "c", "s">>],
      [id |-> <<"P", "R", "D", "-", "0", "0", "5">>,
       name |-> <<"M", "e", "c", "h", "a", "n", "i", "c", "a", "l", " ", "K",
          "e", "y", "b", "o", "a", "r", "d">>,
       category |-> <<"A", "c", "c", "e", "s", "s", "o", "r", "i", "e", "s">>],
      [id |-> <<"P", "R", "D", "-", "0", "0", "6">>,
       name |-> <<"U", "S", "B", "-", "C", " ", "H", "u", "b">>,
       category |-> <<"A", "c", "c", "e", "s", "s", "o", "r", "i", "e", "s">>],
      [id |-> <<"P", "R", "D", "-", "0", "0", "7">>,
       name |-> <<"W", "i", "r", "e", "l", "e", "s", "s", " ", "M", "o", "u",
          "s", "e">>,
       category |-> <<"A", "c", "c", "e", "s", "s", "o", "r", "i", "e", "s">>],
      [id |-> <<"P", "R", "D", "-", "0", "0", "8">>,
       name |-> <<"M", "o", "n", "i", "t", "o", "r", " ", "2", "7", "\"">>,
       category |-> <<"E", "l", "e", "c", "t", "r", "o", "n", "i", "c", "s">>]>>

clientsData ==
    <<[id |-> <<"C", "L", "T", "-", "0", "0", "1">>,
       name |-> <<"S", "a", "r", "a", "h", " ", "J", "o", "h", "n", "s", "o",
          "n">>,
       email |-> <<"s", "a", "r", "a", "h", ".", "j", "e", "m", "a", "i",
          "l", ".", "c", "o", "m">>],
      [id |-> <<"C", "L", "T", "-", "0", "0", "2">>,
       name |-> <<"M", "i", "c", "h", "a", "e", "l", " ", "C", "h", "e",
          "n">>,
       email |-> <<"m", ".", "c", "h", "e", "n", "e", "m", "a", "i", "l",
          ".", "c", "o", "m">>],
      [id |-> <<"C", "L", "T", "-", "0", "0", "3">>,
       name |-> <<"E", "m", "i", "l", "y", " ", "D", "a", "v", "i", "s">>,
       email |-> <<"e", "m", "i", "l", "y", ".", "d", "e", "m", "a", "i",
          "l", ".", "c", "o", "m">>],
      [id |-> <<"C", "L", "T", "-", "0", "0", "4">>,
       name |-> <<"J", "a", "m", "e", "s", " ", "W", "i", "l", "s", "o",
          "n">>,
       email |-> <<"j", ".", "w", "i", "l", "s", "o", "n", "e", "m", "a",
          "i", "l", ".", "c", "o", "m">>],
      [id |-> <<"C", "L", "T", "-", "0", "0", "5">>,
       name |-> <<"A", "m", "a", "n", "d", "a", " ", "B", "r", "o", "w",
          "n">>,
       email |-> <<"a", "m", "a", "n", "d", "a", ".", "b", "e", "m", "a",
          "i", "l", ".", "c", "o", "m">>],
      [id |-> <<"C", "L", "T", "-", "0", "0", "6">>,
       name |-> <<"R", "o", "b", "e", "r", "t", " ", "T", "a", "y", "l", "o",
          "r">>,
       email |-> <<"r", "o", "b", ".", "t", "a", "y", "l", "o", "r", "e",
          "m", "a", "i", "l", ".", "c", "o", "m">>],
      [id |-> <<"C", "L", "T", "-", "0", "0", "7">>,
       name |-> <<"L", "i", "s", "a", " ", "M", "a", "r", "t", "i", "n", "e",
          "z">>,
       email |-> <<"l", "i", "s", "a", ".", "m", "e", "m", "a", "i", "l",
          ".", "c", "o", "m">>],
      [id |-> <<"C", "L", "T", "-", "0", "0", "8">>,
       name |-> <<"D", "a", "v", "i", "d", " ", "A", "n", "d", "e", "r", "s",
          "o", "n">>,
       email |-> <<"d", ".", "a", "n", "d", "e", "r", "s", "o", "n", "e",
          "m", "a", "i", "l", ".", "c", "o", "m">>]>>

UpperCaseLetters ==
    <<"A", "B", "C", "D", "E", "F", "G", "H", "I", "J", "K", "L", "M", "N",
      "O", "P", "Q", "R", "S", "T", "U", "V", "W", "X", "Y", "Z">>

LowerCaseLetters ==
    <<"a", "b", "c", "d", "e", "f", "g", "h", "i", "j", "k", "l", "m", "n",
      "o", "p", "q", "r", "s", "t", "u", "v", "w", "x", "y", "z">>

\* Variant: no case conversion (a case-sensitive comparison).
toLowerCase_identity(str) == str

\* String.prototype.toLowerCase on the characters of the datasets and queries
toLowerCase(str) ==
    [i \in DOMAIN str |->
        IF \E k \in DOMAIN UpperCaseLetters : UpperCaseLetters[k] = str[i]
        THEN LowerCaseLetters[CHOOSE k \in DOMAIN UpperCaseLetters :
                                  UpperCaseLetters[k] = str[i]]
        ELSE str[i]]

\* String.prototype.includes: a scan over the start positions
RECURSIVE includesFrom(_, _, _)
includesFrom(str, searchString, position) ==
    IF position + Len(searchString) > Len(str) THEN FALSE
    ELSE IF SubSeq(str, position + 1, position + Len(searchString))
                = searchString
         THEN TRUE
         ELSE includesFrom(str, searchString, position + 1)

includes(str, searchString) == includesFrom(str, searchString, 0)

\* Products.tsx: filteredProducts
filteredProducts(searchQuery) ==
    SelectSeq(productsData, LAMBDA product :
        \/ includes(toLowerCase(product.name), toLowerCase(searchQuery))
        \/ includes(toLowerCase(product.category), toLowerCase(searchQuery)))

\* Clients: filteredClients
filteredClients(searchQuery) ==
    SelectSeq(clientsData, LAMBDA client :
        \/ includes(toLowerCase(client.name), toLowerCase(searchQuery))
        \/ includes(toLowerCase(client.email), toLowerCase(searchQuery)))

ALL == <<"a", "l", "l">>

\* Variant: no "all" sentinel, every filter value is compared with the status.
matchesStatus_noSentinel(order, statusFilter) ==
    toLowerCase(order.status) = toLowerCase(statusFilter)

\* Variant: the status compared without case conversion.
matchesStatus_caseSensitive(order, statusFilter) ==
    statusFilter = ALL \/ order.status = statusFilter

\* Orders: matchesStatus
matchesStatus(order, statusFilter) ==
    statusFilter = ALL \/ toLowerCase(order.status) = toLowerCase(statusFilter)

\* Orders: matchesSearch
matchesSearch(order, searchQuery) ==
    \/ includes(toLowerCase(order.id), toLowerCase(searchQuery))
    \/ includes(toLowerCase(order.customer), toLowerCase(searchQuery))

\* Orders: filteredOrders
filteredOrders(statusFilter, searchQuery) ==
    SelectSeq(ordersData, LAMBDA order :
        matchesStatus(order, statusFilter) /\ matchesSearch(order, searchQuery))

\* The values of the SelectItem elements of the Orders status Select.
StatusOptions ==
    {ALL,
     <<"d", "e", "l", "i", "v", "e", "r", "e", "d">>,
     <<"p", "e", "n", "d", "i", "n", "g">>,
     <<"p", "r", "o", "c", "e", "s", "s", "i", "n", "g">>,
     <<"f", "a", "i", "l", "e", "d">>}

\* Characters typed into a search field, and the longest text typed.
QueryAlphabet == {"s", "A", "c", "m", ".", "3"}

MaxQueryLen == 2

RECURSIVE StringsUpTo(_)
StringsUpTo(n) ==
    IF n = 0 THEN {<<>>}
    ELSE LET shorter == StringsUpTo(n - 1) IN
         shorter \cup {Append(q, c) : q \in shorter, c \in QueryAlphabet}

Queries == StringsUpTo(MaxQueryLen)

\* The page component mounted for the current page.
MountedPage == currentPageComponent(ui.currentPage).component

SearchPages == {"Products", "Clients", "Orders"}

\* The rows a page renders for its current local state.
Rows ==
    CASE MountedPage = "Products" -> filteredProducts(pageLocal.searchQuery)
      [] MountedPage = "Clients" -> filteredClients(pageLocal.searchQuery)
      [] MountedPage = "Orders" ->
            filteredOrders(pageLocal.statusFilter, pageLocal.searchQuery)
      [] OTHER -> <<>>

PageLocalStep ==
    UNCHANGED <<ui, localStorage, documentElement, layoutMounted, effectDeps,
                lastEvent, themeSnaps>> /\ UNCHANGED others

\* The detail Sheet of Orders and Clients: open={!!selected}, and its
\* content renders the selected record. The other pages have no Sheet.
Sheet ==
    [open |-> MountedPage \in {"Orders", "Clients"}
                /\ pageLocal.selected # NULL,
     record |-> IF MountedPage \in {"Orders", "Clients"}
                THEN pageLocal.selected ELSE NULL]

\* Variant of setSearchQuery: typing in the search box also drops the
\* selection.
setSearchQuery_closing(value) ==
    /\ layoutMounted
    /\ MountedPage \in SearchPages
    /\ pageLocal' = [pageLocal EXCEPT !.searchQuery = value,
                                      !.selected = NULL]
    /\ PageLocalStep

\* onChange of a page's search Input: setSearchQuery(e.target.value)
setSearchQuery(value) ==
    /\ layoutMounted
    /\ MountedPage \in SearchPages
    /\ pageLocal' = [pageLocal EXCEPT !.searchQuery = value]
    /\ PageLocalStep

\* onValueChange of the Orders status Select: setStatusFilter
setStatusFilter(value) ==
    /\ layoutMounted
    /\ MountedPage = "Orders"
    /\ pageLocal' = [pageLocal EXCEPT !.statusFilter = value]
    /\ PageLocalStep

\* View button of a rendered row: setSelectedOrder(order) / setSelectedClient
ViewRow(row) ==
    /\ layoutMounted
    /\ MountedPage \in {"Orders", "Clients"}
    /\ pageLocal' = [pageLocal EXCEPT !.selected = row.id]
    /\ PageLocalStep

\* Sheet onOpenChange(false): !open && setSelected(null)
CloseSheet ==
    /\ layoutMounted
    /\ MountedPage \in {"Orders", "Clients"}
    /\ pageLocal.selected # NULL
    /\ pageLocal' = [pageLocal EXCEPT !.selected = NULL]
    /\ PageLocalStep

(***************************************************************************)
(* store/api/dashboardApi.ts: the dashboard-summary query and the RTK      *)
(* Query machinery createApi builds for it (subscriptions, the query       *)
(* thunk with its in-flight condition, the polling handler)                *)
(***************************************************************************)
DashboardPollingInterval == 30000

\* The definition object passed to builder.query for getDashboardData.
getDashboardData ==
    [providesTags |-> {"Dashboard"},
     pollingInterval |-> DashboardPollingInterval]

\* Period arguments of useGetDashboardDataQuery.
Periods == {"7d", "30d"}

\* Values a hook is called with: a string, nothing (undefined), or a
\* parameter object, which lists its fields in the order they were written.
StringArg(s) == [kind |-> "string", str |-> s, fields |-> <<>>]

UndefinedArg == [kind |-> "undefined", str |-> "", fields |-> <<>>]

ObjectArg(fields) == [kind |-> "object", str |-> "", fields |-> fields]

\* A field value: t is "string", "number" or "undefined", v its text.
Field(name, t, v) == [name |-> name, value |-> [t |-> t, v |-> v]]

Undefined == [t |-> "undefined", v |-> ""]

\* params.<name>: the value of the field, undefined when the object has none
Get(arg, name) ==
    LET idx == {i \in DOMAIN arg.fields : arg.fields[i].name = name} IN
    IF idx = {} THEN Undefined ELSE arg.fields[CHOOSE i \in idx : TRUE].value

\* The query parameters each endpoint's query function copies from params,
\* in the order of its object literal; the string-argument endpoints have
\* none.
endpoints ==
    [getDashboardData |-> [url |-> "/dashboard", params |-> <<>>,
                           providesTags |-> {"Dashboard"}],
     getOrders |-> [url |-> "/orders",
                    params |-> <<"status", "dateRange", "page", "limit">>,
                    providesTags |-> {"Orders"}],
     getOrder |-> [url |-> "/orders", params |-> <<>>,
                   providesTags |-> {"Orders"}],
     getProducts |-> [url |-> "/products",
                      params |-> <<"page", "limit", "search">>,
                      providesTags |-> {"Products"}],
     getClients |-> [url |-> "/clients",
                     params |-> <<"page", "limit", "search", "type">>,
                     providesTags |-> {"Clients"}],
     getReports |-> [url |-> "/reports",
                     params |-> <<"startDate", "endDate", "type">>,
                     providesTags |-> {"Reports"}]]

EndpointNames == DOMAIN endpoints

\* No endpoint is a mutation and none declares invalidatesTags.
invalidatesTags == [e \in EndpointNames |-> {}]

\* Variant of query: the search parameter is left out.
query_droppingSearch(endpointName, arg) ==
    IF endpointName = "getDashboardData"
    THEN [url |-> "/dashboard?period="
                    \o (IF arg.kind = "undefined" THEN "30d" ELSE arg.str),
          params |-> <<>>, hasParams |-> FALSE]
    ELSE IF endpointName = "getOrder"
    THEN [url |-> "/orders/" \o arg.str, params |-> <<>>,
          hasParams |-> FALSE]
    ELSE [url |-> endpoints[endpointName].url,
          params |-> [i \in DOMAIN endpoints[endpointName].params |->
                        [name |-> endpoints[endpointName].params[i],
                         value |->
                           IF endpoints[endpointName].params[i] = "search"
                           THEN Undefined
                           ELSE Get(arg, endpoints[endpointName].params[i])]],
          hasParams |-> TRUE]

\* The query function of an endpoint: a URL string, or { url, params }.
query(endpointName, arg) ==
    IF endpointName = "getDashboardData"
    THEN [url |-> "/dashboard?period="
                    \o (IF arg.kind = "undefined" THEN "30d" ELSE arg.str),
          params |-> <<>>, hasParams |-> FALSE]
    ELSE IF endpointName = "getOrder"
    THEN [url |-> "/orders/" \o arg.str, params |-> <<>>,
          hasParams |-> FALSE]
    ELSE [url |-> endpoints[endpointName].url,
          params |-> [i \in DOMAIN endpoints[endpointName].params |->
                        [name |-> endpoints[endpointName].params[i],
                         value |->
                           Get(arg, endpoints[endpointName].params[i])]],
          hasParams |-> TRUE]

\* stripUndefined of fetchBaseQuery
stripUndefined(params) ==
    SelectSeq(params, LAMBDA p : p.value.t # "undefined")

\* new URLSearchParams(obj).toString(), for values that need no escaping
RECURSIVE URLSearchParams(_)
URLSearchParams(params) ==
    IF params = <<>> THEN ""
    ELSE Head(params).name \o "=" \o Head(params).value.v
         \o (IF Len(params) = 1 THEN "" ELSE "&")
         \o URLSearchParams(Tail(params))

\* prepareHeaders: the authorization header, "null" when it is not set.
\* An empty string is falsy, as is a missing item.
prepareHeaders_always(storage) == "Bearer " \o storage["authToken"]

prepareHeaders(storage) ==
    LET token == storage["authToken"] IN
    IF token # NULL /\ token # ""
    THEN "Bearer " \o token
    ELSE NULL

\* fetchBaseQuery: the request built from what the query function returned.
fetchBaseQuery(endpointName, arg, storage) ==
    LET q == query(endpointName, arg)
        sent == stripUndefined(q.params)
    IN [method |-> "GET",
        url |-> IF q.hasParams
                THEN q.url \o "?" \o URLSearchParams(sent)
                ELSE q.url,
        params |-> sent,
        authorization |-> prepareHeaders(storage)]

\* Object.keys(value).sort() over the field names in use
SortedFieldNames ==
    <<"dateRange", "endDate", "extra", "limit", "page", "search",
      "startDate", "status", "type">>

\* JSON.stringify of one field value
JSONValue(value) ==
    IF value.t = "string" THEN "\"" \o value.v \o "\"" ELSE value.v

RECURSIVE JSONMembers(_, _)
JSONMembers(arg, names) ==
    IF names = <<>> THEN ""
    ELSE LET rest == JSONMembers(arg, Tail(names))
             value == Get(arg, Head(names)) IN
         IF value.t = "undefined" THEN rest
         ELSE "\"" \o Head(names) \o "\":" \o JSONValue(value)
              \o (IF rest = "" THEN "" ELSE ",")
              \o rest

\* Variant of the serializer: the fields keep the order they were written in.
defaultSerializeQueryArgs_unsorted(endpointName, arg) ==
    endpointName \o "("
        \o (IF arg.kind = "undefined" THEN "undefined"
            ELSE IF arg.kind = "string" THEN "\"" \o arg.str \o "\""
            ELSE "{" \o JSONMembers(arg,
                            [i \in DOMAIN arg.fields |-> arg.fields[i].name])
                     \o "}")
        \o ")"

\* Variant of the serializer: the argument is not part of the key.
defaultSerializeQueryArgs_endpointOnly(endpointName, arg) ==
    endpointName \o "()"

\* The cache key: endpoint name and JSON.stringify of the argument with
\* the keys of an object sorted (undefined members are left out).
defaultSerializeQueryArgs(endpointName, arg) ==
    endpointName \o "("
        \o (IF arg.kind = "undefined" THEN "undefined"
            ELSE IF arg.kind = "string" THEN "\"" \o arg.str \o "\""
            ELSE "{" \o JSONMembers(arg, SortedFieldNames) \o "}")
        \o ")"

\* Components that call the hooks.
MaxComponents == 2

Components == 1..MaxComponents

\* Options argument of the generated hook: the documented calls pass none
\* (the subscription then carries pollingInterval 0); a caller may pass
\* { pollingInterval }.
HookPollingOptions == {0, DashboardPollingInterval}

NoHook ==
    [endpointName |-> NULL, originalArgs |-> UndefinedArg,
     queryCacheKey |-> NULL, pollingInterval |-> 0]

\* state.dashboardApi.queries[key] of a key without an entry
NoEntry ==
    [status |-> "uninitialized", endpointName |-> NULL,
     originalArgs |-> UndefinedArg, requestId |-> 0, data |-> <<>>,
     error |-> NULL]

NoPoll == [exists |-> FALSE, nextPollTimestamp |-> 0, timeout |-> FALSE]

NoRemoval == [timeout |-> FALSE, at |-> 0]

\* createApi is called without keepUnusedDataFor: 60 seconds.
keepUnusedDataFor == 60

TickMs == 30000

MaxTime == 60000

\* Network requests sent in one run, over all cache keys.
MaxRequests == 3

RECURSIVE Sum(_, _)
Sum(f, S) ==
    IF S = {} THEN 0
    ELSE LET x == CHOOSE y \in S : TRUE IN f[x] + Sum(f, S \ {x})

TotalRequests == Sum(requests, DOMAIN requests)

\* What a request may fail with: no response, or a non-2xx status.
Errors == {"FETCH_ERROR", "HTTP_500"}

Subscribers(hs, key) == {c \in Components : hs[c].queryCacheKey = key}

\* findLowestPollingInterval: the intervals it looks at are the non-zero
\* pollingInterval options of the key's subscriptions.
PollingIntervals(hs, key) ==
    {hs[c].pollingInterval : c \in {d \in Subscribers(hs, key) :
                                        hs[d].pollingInterval # 0}}

\* TRUE when findLowestPollingInterval returns a finite number
HasPollingInterval(hs, key) == PollingIntervals(hs, key) # {}

findLowestPollingInterval(hs, key) ==
    CHOOSE n \in PollingIntervals(hs, key) :
        \A m \in PollingIntervals(hs, key) : n <= m

\* startNextPoll of the polling handler
startNextPoll(qs, hs, polls, key) ==
    IF qs[key].status = "uninitialized" \/ ~HasPollingInterval(hs, key)
    THEN polls
    ELSE [polls EXCEPT ![key] =
            [exists |-> TRUE,
             nextPollTimestamp |-> now + findLowestPollingInterval(hs, key),
             timeout |-> TRUE]]

\* Variant: a timer that is set stays set when no subscriber asks for
\* polling any more.
updatePollingInterval_keepingTimer(qs, hs, polls, key) ==
    IF qs[key].status = "uninitialized" \/ ~HasPollingInterval(hs, key)
    THEN polls
    ELSE IF \/ ~polls[key].exists
            \/ now + findLowestPollingInterval(hs, key)
                   < polls[key].nextPollTimestamp
         THEN startNextPoll(qs, hs, polls, key)
         ELSE polls

\* updatePollingInterval of the polling handler
updatePollingInterval(qs, hs, polls, key) ==
    IF qs[key].status = "uninitialized" THEN polls
    ELSE IF ~HasPollingInterval(hs, key)
         THEN [polls EXCEPT ![key] = NoPoll]
         ELSE IF \/ ~polls[key].exists
                 \/ now + findLowestPollingInterval(hs, key)
                        < polls[key].nextPollTimestamp
              THEN startNextPoll(qs, hs, polls, key)
              ELSE polls

\* Variant: every subscription fetches, whatever the entry holds.
condition_always(qs, key, forceRefetch) == qs[key].status # "pending"

\* condition of the query thunk: a request for a key that is being fetched
\* is dropped; otherwise it runs when forced, or when the entry has never
\* been fulfilled.
condition(qs, key, forceRefetch) ==
    /\ qs[key].status # "pending"
    /\ forceRefetch \/ qs[key].data = <<>>

\* The query thunk starts a request: the entry becomes pending under the
\* new request id.
Pending(qs, key, endpointName, arg) ==
    [qs EXCEPT ![key].status = "pending",
               ![key].endpointName = endpointName,
               ![key].originalArgs = arg,
               ![key].requestId = requests[key] + 1]

\* Variant: the request of a poll is sent without the headers being prepared.
Request_pollUnprepared(key, endpointName, arg, origin) ==
    [queryCacheKey |-> key,
     requestId |-> requests[key] + 1,
     origin |-> origin,
     url |-> fetchBaseQuery(endpointName, arg, localStorage).url,
     authorization |->
         IF origin = "poll" THEN NULL
         ELSE fetchBaseQuery(endpointName, arg, localStorage).authorization]

\* The request the thunk hands to the base query.
Request(key, endpointName, arg, origin) ==
    [queryCacheKey |-> key,
     requestId |-> requests[key] + 1,
     origin |-> origin,
     url |-> fetchBaseQuery(endpointName, arg, localStorage).url,
     authorization |->
         fetchBaseQuery(endpointName, arg, localStorage).authorization]

\* A dispatched query thunk: if its condition holds the request is sent,
\* and in both cases the polling handler looks at the key again.
QueryThunk(hs, key, endpointName, arg, forceRefetch, origin) ==
    LET run == condition(queries, key, forceRefetch)
        qs == IF run THEN Pending(queries, key, endpointName, arg)
              ELSE queries
    IN /\ run => TotalRequests < MaxRequests
       /\ queries' = qs
       /\ requests' = IF run THEN [requests EXCEPT ![key] = @ + 1]
                      ELSE requests
       /\ inFlight' = IF run
                      THEN inFlight
                             \cup {Request(key, endpointName, arg, origin)}
                      ELSE inFlight
       /\ currentPolls' = updatePollingInterval(qs, hs, currentPolls, key)

CacheStep == UNCHANGED <<uiVars, pageLocal, sidebarCalls, componentVars>>

\* A component mounts a query hook with (arg, { pollingInterval }): the
\* subscription is added and the query thunk dispatched, not forced.
useQuery(c, endpointName, arg, pollingInterval) ==
    LET key == defaultSerializeQueryArgs(endpointName, arg) IN
    /\ hooks[c] = NoHook
    /\ key \in DOMAIN queries
    /\ LET hs == [hooks EXCEPT ![c] =
                    [endpointName |-> endpointName, originalArgs |-> arg,
                     queryCacheKey |-> key,
                     pollingInterval |-> pollingInterval]]
       IN /\ hooks' = hs
          /\ QueryThunk(hs, key, endpointName, arg, FALSE, "subscribe")
    /\ UNCHANGED <<now, removalTimeouts>>
    /\ CacheStep

useGetDashboardDataQuery(c, arg, pollingInterval) ==
    useQuery(c, "getDashboardData", arg, pollingInterval)

useGetOrdersQuery(c, arg) == useQuery(c, "getOrders", arg, 0)

\* The component unmounts: unsubscribeQueryResult. The polling handler
\* looks at the key again, and the removal timer of a key left without
\* subscribers is started.
Unsubscribe(c) ==
    /\ hooks[c] # NoHook
    /\ LET hs == [hooks EXCEPT ![c] = NoHook]
           key == hooks[c].queryCacheKey
       IN /\ hooks' = hs
          /\ currentPolls' = updatePollingInterval(queries, hs, currentPolls,
                                                   key)
          /\ removalTimeouts' =
                IF Subscribers(hs, key) = {}
                THEN [removalTimeouts EXCEPT ![key] =
                        [timeout |-> TRUE,
                         at |-> now + keepUnusedDataFor * 1000]]
                ELSE removalTimeouts
    /\ UNCHANGED <<queries, now, requests, inFlight>>
    /\ CacheStep

\* The entry a response belongs to: the one that carries its request id.
\* A response for a removed entry, or for an entry that a later request
\* has taken over, is dropped.
Current(req) ==
    /\ queries[req.queryCacheKey].status # "uninitialized"
    /\ queries[req.queryCacheKey].requestId = req.requestId

\* Variant: a response is written to the entry whatever request it answers.
QueryFulfilled_anyRequest(req) ==
    /\ req \in inFlight
    /\ LET key == req.queryCacheKey
           qs == [queries EXCEPT ![key].status = "fulfilled",
                                 ![key].data = <<req>>,
                                 ![key].error = NULL]
       IN /\ queries' = qs
          /\ currentPolls' = startNextPoll(qs, hooks, currentPolls, key)
    /\ inFlight' = inFlight \ {req}
    /\ UNCHANGED <<hooks, now, requests, removalTimeouts>>
    /\ CacheStep

\* The response arrives with a 2xx status: queryThunk.fulfilled
QueryFulfilled(req) ==
    /\ req \in inFlight
    /\ LET key == req.queryCacheKey
           qs == IF Current(req)
                 THEN [queries EXCEPT ![key].status = "fulfilled",
                                      ![key].data = <<req>>,
                                      ![key].error = NULL]
                 ELSE queries
       IN /\ queries' = qs
          /\ currentPolls' = startNextPoll(qs, hooks, currentPolls, key)
    /\ inFlight' = inFlight \ {req}
    /\ UNCHANGED <<hooks, now, requests, removalTimeouts>>
    /\ CacheStep

\* Variant: a failure without a response leaves the entry pending.
QueryRejected_transportIgnored(req, error) ==
    /\ req \in inFlight
    /\ LET key == req.queryCacheKey
           qs == IF Current(req) /\ error # "FETCH_ERROR"
                 THEN [queries EXCEPT ![key].status = "rejected",
                                      ![key].error = error]
                 ELSE queries
       IN /\ queries' = qs
          /\ currentPolls' = startNextPoll(qs, hooks, currentPolls, key)
    /\ inFlight' = inFlight \ {req}
    /\ UNCHANGED <<hooks, now, requests, removalTimeouts>>
    /\ CacheStep

\* The request fails, without a response or with a non-2xx status:
\* queryThunk.rejected. The entry keeps the data it had.
QueryRejected(req, error) ==
    /\ req \in inFlight
    /\ LET key == req.queryCacheKey
           qs == IF Current(req)
                 THEN [queries EXCEPT ![key].status = "rejected",
                                      ![key].error = error]
                 ELSE queries
       IN /\ queries' = qs
          /\ currentPolls' = startNextPoll(qs, hooks, currentPolls, key)
    /\ inFlight' = inFlight \ {req}
    /\ UNCHANGED <<hooks, now, requests, removalTimeouts>>
    /\ CacheStep

\* refetch() of a query handle: a forced query thunk, which the thunk's
\* condition drops while a request for the key is in flight.
Refetch(c) ==
    /\ hooks[c] # NoHook
    /\ queries[hooks[c].queryCacheKey].status # "pending"
    /\ QueryThunk(hooks, hooks[c].queryCacheKey, hooks[c].endpointName,
                  hooks[c].originalArgs, TRUE, "refetch")
    /\ UNCHANGED <<hooks, now, removalTimeouts>>
    /\ CacheStep

\* The poll timer of a key fires: refetchQuery, a forced query thunk for
\* the entry's endpoint and arguments.
PollTimeout(key) ==
    /\ currentPolls[key].timeout
    /\ currentPolls[key].nextPollTimestamp = now
    /\ LET run == condition(queries, key, TRUE)
           qs == IF run
                 THEN Pending(queries, key, queries[key].endpointName,
                              queries[key].originalArgs)
                 ELSE queries
           polls == [currentPolls EXCEPT ![key].timeout = FALSE]
       IN /\ run => TotalRequests < MaxRequests
          /\ queries' = qs
          /\ requests' = IF run THEN [requests EXCEPT ![key] = @ + 1]
                         ELSE requests
          /\ inFlight' =
                IF run
                THEN inFlight \cup {Request(key, queries[key].endpointName,
                                            queries[key].originalArgs, "poll")}
                ELSE inFlight
          /\ currentPolls' = updatePollingInterval(qs, hooks, polls, key)
    /\ UNCHANGED <<hooks, now, removalTimeouts>>
    /\ CacheStep

\* What the hook of a mounted component returns for its entry.
QueryHandle(c) ==
    LET entry == queries[hooks[c].queryCacheKey] IN
    [data |-> entry.data,
     error |-> entry.error,
     isLoading |-> entry.status = "pending" /\ entry.data = <<>>]

\* The removal timer of a key fires: the entry is removed if the key still
\* has no subscriber.
RemovalTimeout(key) ==
    /\ removalTimeouts[key].timeout
    /\ removalTimeouts[key].at = now
    /\ queries' = IF Subscribers(hooks, key) = {}
                  THEN [queries EXCEPT ![key] = NoEntry]
                  ELSE queries
    /\ removalTimeouts' = [removalTimeouts EXCEPT ![key] = NoRemoval]
    /\ UNCHANGED <<hooks, currentPolls, now, requests, inFlight>>
    /\ CacheStep

\* The timers that are set, as the times they are due.
Timers ==
    {currentPolls[k].nextPollTimestamp :
        k \in {j \in DOMAIN queries : currentPolls[j].timeout}}
    \cup {removalTimeouts[k].at :
            k \in {j \in DOMAIN queries : removalTimeouts[j].timeout}}

\* Time passes, up to the next timer that is due.
Tick ==
    /\ now < MaxTime
    /\ \A t \in Timers : t > now
    /\ LET target == IF now + TickMs > MaxTime THEN MaxTime ELSE now + TickMs
       IN now' = IF \E t \in Timers : t < target
                 THEN CHOOSE t \in Timers : \A u \in Timers : t <= u
                 ELSE target
    /\ UNCHANGED <<hooks, queries, currentPolls, requests, inFlight,
                   removalTimeouts>>
    /\ CacheStep

\* Other code of the page stores or removes the token:
\* localStorage.setItem('authToken', value) or removeItem('authToken').
AuthTokens == {NULL, "", "t0k3n"}

setAuthToken(value) ==
    /\ localStorage["authToken"] # value
    /\ localStorage' = [localStorage EXCEPT !["authToken"] = value]
    /\ UNCHANGED <<ui, documentElement, layoutMounted, effectDeps, lastEvent,
                   themeSnaps, pageLocal, sidebarCalls>>
    /\ UNCHANGED <<cacheVars, componentVars>>

\* The arguments each hook is called with when requests are built: the
\* periods and no argument, order ids, and parameter objects with listed
\* fields, fields of other endpoints, an unlisted field, an undefined
\* field, and no field at all.
ParamObjects ==
    {ObjectArg(<<Field("status", "string", "pending"),
                 Field("page", "number", "1")>>),
     ObjectArg(<<Field("page", "number", "2"), Field("limit", "number", "10"),
                 Field("search", "string", "abc"),
                 Field("type", "string", "vip"),
                 Field("extra", "string", "x")>>),
     ObjectArg(<<Field("startDate", "string", "2024-01-01"),
                 Field("endDate", "string", "2024-01-31"),
                 Field("type", "string", "sales"),
                 Field("status", "string", "failed"),
                 Field("dateRange", "string", "7d")>>),
     ObjectArg(<<Field("search", "undefined", ""),
                 Field("limit", "number", "10")>>),
     ObjectArg(<<>>)}

RequestArgs(endpointName) ==
    IF endpointName = "getDashboardData"
    THEN {StringArg(p) : p \in Periods} \cup {UndefinedArg}
    ELSE IF endpointName = "getOrder"
    THEN {StringArg("ORD-001235"), StringArg("42")}
    ELSE ParamObjects

NoRequest ==
    [endpointName |-> NULL, arg |-> UndefinedArg,
     request |-> [method |-> NULL, url |-> NULL, params |-> <<>>,
                  authorization |-> NULL]]

\* A query of an endpoint runs: fetchBaseQuery builds the request from the
\* endpoint's query function, the argument and the headers.
SendRequest(endpointName, arg) ==
    /\ lastRequest' =
          [endpointName |-> endpointName, arg |-> arg,
           request |-> fetchBaseQuery(endpointName, arg, localStorage)]
    /\ UNCHANGED <<uiVars, pageLocal, sidebarCalls, cacheVars, image, tick>>

(***************************************************************************)
(* components/figma/ImageWithFallback.tsx                                  *)
(***************************************************************************)
\* Stands for the base64 data URI of the placeholder.
ERROR_IMG_SRC == "data:image/svg+xml;base64,PHN2Zy"

\* Props a parent passes: src, alt and className may be left out ("null"),
\* onError tells whether the parent passes a handler.
ImageProps ==
    [src : {NULL, "a.jpg", "b.jpg"},
     alt : {NULL, "Product image", "User avatar"},
     className : {NULL, "w-full h-auto"},
     onError : BOOLEAN]

\* Error events delivered to one component.
MaxErrorEvents == 2

\* The element tree the component returns. The placeholder <img> gets the
\* caller's remaining props, an onError among them; on the original <img>
\* onError={handleError} comes after the spread.
Render(props, didError) ==
    IF didError
    THEN [tag |-> "div",
          className |-> "inline-block bg-gray-100 text-center align-middle "
                        \o (IF props.className = NULL THEN ""
                            ELSE props.className),
          img |-> [src |-> ERROR_IMG_SRC,
                   alt |-> "Error loading image",
                   className |-> NULL,
                   onError |-> IF props.onError THEN "props.onError" ELSE NULL,
                   dataOriginalUrl |-> props.src]]
    ELSE [tag |-> "img",
          className |-> NULL,
          img |-> [src |-> props.src,
                   alt |-> props.alt,
                   className |-> props.className,
                   onError |-> "handleError",
                   dataOriginalUrl |-> NULL]]

\* Variant: the error is not recorded.
handleError_ignoring(img) == img

\* handleError: setDidError(true)
handleError(img) == [img EXCEPT !.didError = TRUE]

\* useState(false) at mount, with the history counters at zero.
MountImage(props) ==
    [props |-> props, didError |-> FALSE, errorEvents |-> 0,
     onErrorCalls |-> 0]

ImageStep == UNCHANGED <<uiVars, pageLocal, sidebarCalls, cacheVars,
                         lastRequest, tick>>

\* The <img> that is rendered fires its error event: its onError runs.
ImageErrorEvent ==
    /\ image.errorEvents < MaxErrorEvents
    /\ LET onError == Render(image.props, image.didError).img.onError
           seen == [image EXCEPT !.errorEvents = @ + 1]
       IN image' = IF onError = "handleError" THEN handleError(seen)
                   ELSE IF onError = "props.onError"
                        THEN [seen EXCEPT !.onErrorCalls = @ + 1]
                        ELSE seen
    /\ ImageStep

\* Variant: a render with another src starts over with the original image.
ParentRender_resetting(props) ==
    /\ props # image.props
    /\ image' = [image EXCEPT !.props = props,
                              !.didError = (@ /\ props.src = image.props.src)]
    /\ ImageStep

\* The parent renders the component again with other props; the state of
\* the component is kept.
ParentRender(props) ==
    /\ props # image.props
    /\ image' = [image EXCEPT !.props = props]
    /\ ImageStep

(***************************************************************************)
(* Sidebar call sequences: store.dispatch of toggleSidebar() and           *)
(* setSidebarCollapsed(b), with the sequence of calls recorded             *)
(***************************************************************************)
MaxCalls == 4

SidebarActions == {a \in UIActions :
                      a.type \in {"toggleSidebar", "setSidebarCollapsed"}}

SidebarCall(action) ==
    /\ Len(sidebarCalls) < MaxCalls
    /\ ui' = uiReducer(ui, action)
    /\ sidebarCalls' = Append(sidebarCalls, action)
    /\ lastEvent' = Event(action.type, action.payload)
    /\ UNCHANGED <<localStorage, documentElement, layoutMounted, effectDeps,
                   themeSnaps, pageLocal>>
    /\ UNCHANGED <<cacheVars, componentVars>>

(***************************************************************************)
(* Environment at start-up                                                 *)
(***************************************************************************)
LocalStorageKeys == {"authToken", "theme"}

\* The cache keys of the dashboard-summary query.
\* Arguments useGetDashboardDataQuery is called with: a period, or none.
DashboardArgs == {StringArg(p) : p \in Periods} \cup {UndefinedArg}

DashboardKeys ==
    {defaultSerializeQueryArgs("getDashboardData", a) : a \in DashboardArgs}

\* Parameter objects useGetOrdersQuery is called with: the same values
\* written in two orders, and a different status.
OrderArgs ==
    {ObjectArg(<<Field("status", "string", "pending"),
                 Field("page", "number", "1")>>),
     ObjectArg(<<Field("page", "number", "1"),
                 Field("status", "string", "pending")>>),
     ObjectArg(<<Field("status", "string", "failed"),
                 Field("page", "number", "1")>>)}

OrdersKeys == {defaultSerializeQueryArgs("getOrders", a) : a \in OrderArgs}

CacheKeys == DashboardKeys \cup OrdersKeys

\* The data cache of a store just created, over the cache keys in use.
InitQueries(keys) ==
    /\ hooks = [c \in Components |-> NoHook]
    /\ queries = [k \in keys |-> NoEntry]
    /\ currentPolls = [k \in keys |-> NoPoll]
    /\ removalTimeouts = [k \in keys |-> NoRemoval]
    /\ now = 0
    /\ requests = [k \in keys |-> 0]
    /\ inFlight = {}
    /\ lastRequest = NoRequest
    /\ image = MountImage([src |-> "a.jpg", alt |-> "Product image",
                           className |-> NULL, onError |-> FALSE])
    /\ tick = NoTick

StoredValues == {NULL, "dark"}

Init ==
    /\ localStorage \in [LocalStorageKeys -> StoredValues]
    /\ documentElement \in [classDark : BOOLEAN, dataTheme : {NULL}]
    /\ ui = initialState
    /\ layoutMounted = FALSE
    /\ effectDeps = FALSE
    /\ pageLocal = initialPageLocal
    /\ lastEvent = Event("init", NoPayload)
    /\ themeSnaps = <<>>
    /\ sidebarCalls = <<>>
    /\ hooks = [c \in Components |-> NoHook]
    /\ InitQueries(CacheKeys)

Next ==
    \/ \E action \in UIActions : StoreDispatch(action)
    \/ Mount
    \/ RenderPass
    \/ \E id \in NavIds : DesktopNavClick(id)
    \/ \E id \in NavIds : MobileNavClick(id)
    \/ OverlayClick
    \/ handleSidebarToggle
    \/ handleThemeToggle
    \/ handleMobileMenuToggle

Spec == Init /\ [][Next]_vars

NextSidebar == \E action \in SidebarActions : SidebarCall(action)

SpecSidebar == Init /\ [][NextSidebar]_vars

\* The pages in use: a start-up with empty local storage and no class on the
\* document root, then navigation and page-local input.
InitPages ==
    /\ Init
    /\ localStorage = [k \in LocalStorageKeys |-> NULL]
    /\ documentElement.classDark = FALSE

NextPages ==
    \/ Mount
    \/ \E id \in NavIds : DesktopNavClick(id)
    \/ \E value \in Queries : setSearchQuery(value)
    \/ \E value \in StatusOptions : setStatusFilter(value)
    \/ LET rows == Rows IN \E i \in DOMAIN rows : ViewRow(rows[i])
    \/ CloseSheet

SpecPages == InitPages /\ [][NextPages]_vars

\* The Layout in use: what a user can do with the shell, and the render
\* passes that follow.
NextLayout ==
    \/ Mount
    \/ RenderPass
    \/ \E id \in NavIds : DesktopNavClick(id)
    \/ \E id \in NavIds : MobileNavClick(id)
    \/ OverlayClick
    \/ handleSidebarToggle
    \/ handleThemeToggle
    \/ handleMobileMenuToggle

SpecLayout == Init /\ [][NextLayout]_vars

\* The theme in use: the store's theme actions, the Layout effect and calls
\* of the theme-utils functions, in any order.
ThemeActions == {a \in UIActions : a.type \in {"toggleTheme", "setTheme"}}

NextTheme ==
    \/ Mount
    \/ RenderPass
    \/ \E action \in ThemeActions : StoreDispatch(action)
    \/ handleThemeToggle
    \/ utilsToggleTheme

SpecTheme == Init /\ [][NextTheme]_vars

\* The sales chart in use: the Y axis formats one tick after another.
NextChart ==
    \E step \in TickSteps :
        /\ tick.value + step \in TickValues
        /\ FormatTick(tick.value + step)

SpecChart == InitPages /\ [][NextChart]_vars

\* The data cache in use: components subscribe and unsubscribe, responses
\* arrive, time passes.
InitCache ==
    /\ Init
    /\ localStorage = [k \in LocalStorageKeys |-> NULL]
    /\ documentElement.classDark = FALSE

NextCache ==
    \/ \E c \in Components, p \in HookPollingOptions :
          useGetDashboardDataQuery(c, StringArg("7d"), p)
    \/ \E c \in Components : Unsubscribe(c)
    \/ \E req \in inFlight : QueryFulfilled(req)
    \/ \E req \in inFlight, error \in Errors : QueryRejected(req, error)
    \/ \E c \in Components : Refetch(c)
    \/ \E key \in DOMAIN queries : PollTimeout(key)
    \/ \E key \in DOMAIN queries : RemovalTimeout(key)
    \/ Tick

SpecCache == InitCache /\ [][NextCache]_vars

\* The data cache in use while the page stores, replaces and removes the
\* auth token.
NextToken ==
    \/ NextCache
    \/ \E value \in AuthTokens : setAuthToken(value)

SpecToken == InitCache /\ [][NextToken]_vars

\* The requests the endpoints build, with the token stored or removed in
\* between.
NextRequests ==
    \/ \E endpointName \in EndpointNames :
          \E arg \in RequestArgs(endpointName) :
             SendRequest(endpointName, arg)
    \/ \E value \in AuthTokens : setAuthToken(value)

SpecRequests == InitCache /\ [][NextRequests]_vars

\* One ImageWithFallback: the parent renders it with other props, the
\* image it shows fails to load.
NextImage ==
    \/ \E props \in ImageProps : ParentRender(props)
    \/ ImageErrorEvent

SpecImage == InitCache /\ [][NextImage]_vars

\* The dashboard keys in use, before any timer is due: components
\* subscribe to the summary of either period, unsubscribe and refetch,
\* responses arrive.
NextKeys ==
    \/ \E c \in Components, arg \in Periods :
          useGetDashboardDataQuery(c, StringArg(arg), 0)
    \/ \E c \in Components : Unsubscribe(c)
    \/ \E req \in inFlight : QueryFulfilled(req)
    \/ \E req \in inFlight, error \in Errors : QueryRejected(req, error)
    \/ \E c \in Components : Refetch(c)

SpecKeys == InitCache /\ [][NextKeys]_vars

\* The dashboard summary asked for with the period left out and with the
\* period '30d' written out.
DefaultPeriodArgs == {UndefinedArg, StringArg("30d")}

NextDefault ==
    \/ \E c \in Components, arg \in DefaultPeriodArgs :
          useGetDashboardDataQuery(c, arg, 0)
    \/ \E c \in Components : Unsubscribe(c)
    \/ \E req \in inFlight : QueryFulfilled(req)
    \/ \E req \in inFlight, error \in Errors : QueryRejected(req, error)
    \/ \E c \in Components : Refetch(c)

SpecDefault == InitCache /\ [][NextDefault]_vars

\* The order lists in use, before any timer is due: components subscribe
\* with parameter objects, unsubscribe and refetch, responses arrive.
NextOrders ==
    \/ \E c \in Components, arg \in OrderArgs : useGetOrdersQuery(c, arg)
    \/ \E c \in Components : Unsubscribe(c)
    \/ \E req \in inFlight : QueryFulfilled(req)
    \/ \E req \in inFlight, error \in Errors : QueryRejected(req, error)
    \/ \E c \in Components : Refetch(c)

SpecOrders == InitCache /\ [][NextOrders]_vars

\* One order list over time: components subscribe to it with either
\* spelling of the same parameters, unsubscribe and refetch, responses
\* arrive, time passes and the removal timer fires.
SameOrderArgs == {a \in OrderArgs : Get(a, "status").v = "pending"}

NextEntry ==
    \/ \E c \in Components, arg \in SameOrderArgs :
          useGetOrdersQuery(c, arg)
    \/ \E c \in Components : Unsubscribe(c)
    \/ \E req \in inFlight : QueryFulfilled(req)
    \/ \E req \in inFlight, error \in Errors : QueryRejected(req, error)
    \/ \E c \in Components : Refetch(c)
    \/ \E key \in DOMAIN queries : RemovalTimeout(key)
    \/ Tick

SpecEntry == InitCache /\ [][NextEntry]_vars

(***************************************************************************)
(* Properties of the UI state container                                    *)
(***************************************************************************)
\* The field of the UI state each transition writes.
FieldOf(type) ==
    CASE type = "setCurrentPage" -> "currentPage"
      [] type \in {"toggleSidebar", "setSidebarCollapsed"} -> "sidebarCollapsed"
      [] type \in {"toggleTheme", "setTheme"} -> "isDarkMode"
      [] type \in {"toggleMobileMenu", "setMobileMenuOpen"} -> "mobileMenuOpen"

ToggleTypes == {"toggleSidebar", "toggleTheme", "toggleMobileMenu"}

UIFields == {"currentPage", "sidebarCollapsed", "isDarkMode", "mobileMenuOpen"}

\* C1: each of the seven UI transitions is total (in every reachable state it
\* can be dispatched and yields a UI state with the same four fields) and
\* writes exactly one field: a setter gives its field the payload, a toggle
\* negates its field, and the other three fields keep their values.
C1_TotalOneField ==
    \A a \in UIActions :
        LET new == uiReducer(ui, a)
            f == FieldOf(a.type) IN
        /\ ENABLED StoreDispatch(a)
        /\ DOMAIN new = UIFields
        /\ \A g \in UIFields \ {f} : new[g] = ui[g]
        /\ new[f] = IF a.type \in ToggleTypes THEN ~ui[f] ELSE a.payload

C1_Witness ==
    /\ lastEvent.type = "setCurrentPage"
    /\ ui.currentPage = "orders"
    /\ ui.mobileMenuOpen /\ ui.isDarkMode /\ ui.sidebarCollapsed

\* The value the claim assigns to a call sequence: the payload of the last
\* setSidebarCollapsed (FALSE when there is none), negated once per
\* toggleSidebar that follows it.
SidebarExpected(calls) ==
    LET sets == {i \in DOMAIN calls : calls[i].type = "setSidebarCollapsed"}
        last == IF sets = {} THEN 0
                ELSE CHOOSE i \in sets : \A j \in sets : j <= i
        base == IF last = 0 THEN FALSE ELSE calls[last].payload
        flips == Cardinality({i \in DOMAIN calls :
                                 i > last /\ calls[i].type = "toggleSidebar"})
    IN IF flips % 2 = 0 THEN base ELSE ~base

\* C2: after any sequence of toggleSidebar / setSidebarCollapsed(b) calls from
\* the initial state, sidebarCollapsed is the value of the last
\* setSidebarCollapsed (initially false) flipped once per later toggleSidebar;
\* setSidebarCollapsed(true) applied twice equals applying it once.
C2_SidebarSequence ==
    /\ ui.sidebarCollapsed = SidebarExpected(sidebarCalls)
    /\ LET once == uiReducer(ui, Action("setSidebarCollapsed", TRUE))
       IN uiReducer(once, Action("setSidebarCollapsed", TRUE)) = once

C2_Witness ==
    /\ Len(sidebarCalls) = 4
    /\ sidebarCalls[1].type = "toggleSidebar"
    /\ sidebarCalls[2] = Action("setSidebarCollapsed", TRUE)
    /\ sidebarCalls[3] = Action("setSidebarCollapsed", TRUE)
    /\ sidebarCalls[4].type = "toggleSidebar"
    /\ ~ui.sidebarCollapsed

\* C3: the UI state starts as {dashboard, false, false, false} whatever local
\* storage and the document root hold, and every later change of it is the
\* result of one named transition (or of two, for a handler that dispatches
\* twice).
C3_FixedInitialState ==
    /\ [](lastEvent.type = "init" =>
            ui = [currentPage |-> "dashboard", sidebarCollapsed |-> FALSE,
                  isDarkMode |-> FALSE, mobileMenuOpen |-> FALSE])
    /\ [][\/ ui' = ui
          \/ \E a \in UIActions : ui' = uiReducer(ui, a)
          \/ \E a, b \in UIActions : ui' = uiReducer(uiReducer(ui, a), b)]_vars

C3_Witness ==
    /\ lastEvent.type = "init"
    /\ layoutMounted
    /\ localStorage["theme"] = "dark"
    /\ ui.isDarkMode = FALSE

\* C4 as claimed: for every value of currentPage the root composition renders
\* exactly one page component, the mapped one for a known id and Dashboard
\* for any other value, and never an error or a non-page output.
C4_AlwaysAPage ==
    LET r == currentPageComponent(ui.currentPage) IN
    /\ r.kind = "page"
    /\ r.component = IF ui.currentPage \in PageType
                     THEN PAGE_COMPONENTS[ui.currentPage] ELSE "Dashboard"

\* C5: once the render pass that follows a change of isDarkMode has run, the
\* document root has the 'dark' class exactly when isDarkMode is true and
\* data-theme is 'dark' or 'light' accordingly; after two toggles, each
\* followed by its render pass, the document root is what it was before.
C5_ThemeMirrored ==
    Settled =>
        /\ documentElement.classDark = ui.isDarkMode
        /\ documentElement.dataTheme = IF ui.isDarkMode THEN "dark" ELSE "light"
        /\ Len(themeSnaps) = 2 => documentElement = themeSnaps[1]

C5_Witness ==
    /\ Settled
    /\ Len(themeSnaps) = 2
    /\ themeSnaps[2].classDark
    /\ ~documentElement.classDark
    /\ lastEvent.type = "handleThemeToggle"

\* C6: after a click on any navigation item of the mobile menu, currentPage
\* is that item's id (one of the seven page ids) and mobileMenuOpen is false.
C6_MobileNavClosesMenu ==
    lastEvent.type = "mobileNavClick" =>
        /\ lastEvent.arg \in PageType
        /\ ui.currentPage = lastEvent.arg
        /\ ui.mobileMenuOpen = FALSE

\* A mobile click on the Design System link has acted, with the other flags
\* away from their defaults.
C6_Witness ==
    /\ lastEvent = Event("mobileNavClick", "design-system")
    /\ ui.currentPage = "design-system"
    /\ ~ui.mobileMenuOpen
    /\ ui.sidebarCollapsed /\ ui.isDarkMode

(***************************************************************************)
(* Properties of the page filters                                          *)
(***************************************************************************)
\* Case folding and substring containment as the claims use them, stated
\* independently of the operators that model the code.
Fold(str) ==
    [i \in DOMAIN str |->
        LET ks == {k \in DOMAIN UpperCaseLetters : UpperCaseLetters[k] = str[i]}
        IN IF ks = {} THEN str[i]
           ELSE LowerCaseLetters[CHOOSE k \in ks : TRUE]]

Contains(value, q) ==
    \E i \in 0..Len(value) :
        /\ i + Len(q) <= Len(value)
        /\ \A k \in 1..Len(q) : value[i + k] = q[k]

SearchedFields ==
    CASE MountedPage = "Products" -> {"name", "category"}
      [] MountedPage = "Clients" -> {"name", "email"}
      [] MountedPage = "Orders" -> {"id", "customer"}

Dataset ==
    CASE MountedPage = "Products" -> productsData
      [] MountedPage = "Clients" -> clientsData
      [] MountedPage = "Orders" -> ordersData

SearchMatch(record, q) ==
    \E f \in SearchedFields : Contains(Fold(record[f]), Fold(q))

StatusMatch(record, statusFilter) ==
    Fold(record.status) = Fold(statusFilter)

\* list is exactly the records data[i], i in keep, in the order of data.
ExactlyInOrder(list, data, keep) ==
    /\ Len(list) = Cardinality(keep)
    /\ \A k \in DOMAIN list :
          list[k] = data[CHOOSE i \in keep :
                            Cardinality({j \in keep : j < i}) = k - 1]

\* C7 as claimed: on Products, Clients and Orders the filtered list is, for
\* every search string, exactly the records (in dataset order) with a searched
\* field containing the lower-cased query, whatever the Orders status filter.
C7_SearchOnly ==
    MountedPage \in SearchPages =>
        /\ ExactlyInOrder(Rows, Dataset,
              {i \in DOMAIN Dataset :
                  SearchMatch(Dataset[i], pageLocal.searchQuery)})
        /\ (pageLocal.searchQuery = <<>>
              /\ (MountedPage = "Orders" => pageLocal.statusFilter = ALL))
           => Rows = Dataset

\* C7 (amended): on Products, Clients and Orders the filtered list is exactly
\* the records, in dataset order, that have a searched field containing the
\* lower-cased query and, on Orders, that pass the status filter; with the
\* query empty (and Orders status "all") it is the whole dataset.
C7_SearchFilter ==
    MountedPage \in SearchPages =>
        /\ ExactlyInOrder(Rows, Dataset,
              {i \in DOMAIN Dataset :
                  /\ SearchMatch(Dataset[i], pageLocal.searchQuery)
                  /\ MountedPage = "Orders" =>
                        \/ pageLocal.statusFilter = ALL
                        \/ StatusMatch(Dataset[i], pageLocal.statusFilter)})
        /\ (pageLocal.searchQuery = <<>>
              /\ (MountedPage = "Orders" => pageLocal.statusFilter = ALL))
           => Rows = Dataset

\* Orders filtered by "pending" and the mixed-case text "sA": only Lisa
\* Martinez's pending order is left.
C7_Witness ==
    /\ MountedPage = "Orders"
    /\ pageLocal.searchQuery = <<"s", "A">>
    /\ pageLocal.statusFilter = <<"p", "e", "n", "d", "i", "n", "g">>
    /\ Len(Rows) = 1
    /\ Rows[1].id = <<"O", "R", "D", "-", "0", "0", "1", "2", "4", "0">>

\* C8 as claimed: with the Orders status filter "all" the list is the whole
\* of ordersData, whatever the search field holds.
C8_AllIgnoresSearch ==
    (MountedPage = "Orders" /\ pageLocal.statusFilter = ALL)
        => Rows = ordersData

\* C8 (amended): with the Orders status filter "all" no order is left out
\* for its status: an order is listed exactly when it matches the search
\* text, listed orders keep the dataset order, and with an empty search the
\* list is the whole of ordersData.
C8_AllKeepsSearch ==
    (MountedPage = "Orders" /\ pageLocal.statusFilter = ALL) =>
        /\ \A i \in DOMAIN ordersData :
              (\E k \in DOMAIN Rows : Rows[k] = ordersData[i])
                  <=> SearchMatch(ordersData[i], pageLocal.searchQuery)
        /\ \A k, l \in DOMAIN Rows :
              k < l => \E i, j \in DOMAIN ordersData :
                          i < j /\ ordersData[i] = Rows[k]
                                /\ ordersData[j] = Rows[l]
        /\ pageLocal.searchQuery = <<>> => Rows = ordersData

\* Status "all" with the text "3": the six orders ORD-001234 .. ORD-001239.
C8_Witness ==
    /\ MountedPage = "Orders"
    /\ pageLocal.statusFilter = ALL
    /\ pageLocal.searchQuery = <<"3">>
    /\ Len(Rows) = 6

PENDING == <<"p", "e", "n", "d", "i", "n", "g">>

\* C9: with a concrete Orders status filter every listed order has that
\* status ignoring case, for every search text; with an empty search the list
\* is exactly the orders of that status; of the 8 mock orders "pending" lists
\* exactly 2, both labelled "Pending".
C9_StatusFilter ==
    (MountedPage = "Orders" /\ pageLocal.statusFilter # ALL) =>
        /\ \A k \in DOMAIN Rows : StatusMatch(Rows[k], pageLocal.statusFilter)
        /\ pageLocal.searchQuery = <<>> =>
              ExactlyInOrder(Rows, ordersData,
                  {i \in DOMAIN ordersData :
                      StatusMatch(ordersData[i], pageLocal.statusFilter)})
        /\ Len(ordersData) = 8
        /\ (pageLocal.statusFilter = PENDING /\ pageLocal.searchQuery = <<>>)
              => /\ Len(Rows) = 2
                 /\ \A k \in DOMAIN Rows :
                       Rows[k].status = <<"P", "e", "n", "d", "i", "n", "g">>

C9_Witness ==
    /\ MountedPage = "Orders"
    /\ pageLocal.statusFilter = PENDING
    /\ pageLocal.searchQuery = <<>>
    /\ Len(Rows) = 2
    /\ Rows[1].customer = <<"M", "i", "c", "h", "a", "e", "l", " ", "C", "h",
                            "e", "n">>

(***************************************************************************)
(* Properties of the data cache                                            *)
(***************************************************************************)
\* A poll timer is armed for the key and due within the polling interval.
PollArmed(key) ==
    /\ currentPolls[key].timeout
    /\ currentPolls[key].nextPollTimestamp >= now
    /\ currentPolls[key].nextPollTimestamp <= now + DashboardPollingInterval

\* C10 as claimed: while a dashboard-summary query has a subscriber it is
\* refetched automatically every 30000 ms: whenever its entry is not being
\* fetched, a poll timer is armed that sends the next request within the
\* interval, without a manual refetch.
C10_PolledWhileSubscribed ==
    \A key \in DOMAIN queries :
        (Subscribers(hooks, key) # {}
            /\ queries[key].status \in {"fulfilled", "rejected"})
        => PollArmed(key)

\* What the polling handler does provide: the same, for an entry one of
\* whose subscribers passed a pollingInterval option to the hook.
PolledWithOption ==
    \A key \in DOMAIN queries :
        (HasPollingInterval(hooks, key)
            /\ queries[key].status \in {"fulfilled", "rejected"})
        => PollArmed(key)

\* C11: the poll timer of a cache key is cancelled when its last subscriber
\* unsubscribes: a key without subscribers has no poll timer set, and no
\* request is sent by a poll timer for a key that has no subscriber.
C11_PollCancelled ==
    /\ [](\A key \in DOMAIN queries :
            Subscribers(hooks, key) = {} => ~currentPolls[key].timeout)
    /\ [][\A req \in inFlight' \ inFlight :
            req.origin = "poll" => Subscribers(hooks, req.queryCacheKey) # {}]_vars

\* A key that was polled (its data came from a poll request) has lost its
\* last subscriber, and the time at which the next poll would have been
\* due has passed.
C11_Witness ==
    \E key \in DOMAIN queries :
        /\ Subscribers(hooks, key) = {}
        /\ queries[key].data # <<>>
        /\ queries[key].data[1].origin = "poll"
        /\ inFlight = {}
        /\ now = MaxTime

\* The requests sent and the responses received in a step.
Sent == inFlight' \ inFlight

Answered == inFlight \ inFlight'

ByRefetchOrPoll == {"refetch", "poll"}

\* C12 as claimed: an entry is fetched once per argument set, by the first
\* subscription, and an existing entry afterwards changes only through an
\* explicit refetch or the poll timer: through such a request being sent
\* or answered, or the answer to the first fetch.
C12_OnlyRefetchOrPoll ==
    [][/\ \A req \in Sent :
            req.origin = "subscribe" => requests[req.queryCacheKey] = 0
       /\ \A key \in DOMAIN queries :
            (queries[key].status # "uninitialized"
                /\ queries'[key] # queries[key])
            => \/ \E req \in Sent :
                     /\ req.queryCacheKey = key
                     /\ req.origin \in ByRefetchOrPoll
               \/ \E req \in Answered :
                     /\ req.queryCacheKey = key
                     /\ req.origin \in ByRefetchOrPoll
                            \/ req.requestId = 1]_vars

\* C12 as the code has it: no endpoint invalidates a tag; the data of an
\* entry that has been fetched changes only by the answer to a refetch or
\* poll request, or by the removal of the entry once its removal timer is
\* due and it has no subscriber; a subscription fetches only an entry that
\* holds no data and is not being fetched; and an existing entry changes
\* only when a request for its key is sent or answered or it is removed.
C12_DataByRefetch ==
    /\ [](\A e \in EndpointNames : invalidatesTags[e] = {})
    /\ [][/\ \A req \in Sent :
              req.origin = "subscribe"
              => /\ queries[req.queryCacheKey].data = <<>>
                 /\ queries[req.queryCacheKey].status # "pending"
         /\ \A key \in DOMAIN queries :
              /\ (queries[key].data # <<>>
                     /\ queries'[key].data # queries[key].data)
                 => \/ \E req \in Answered :
                          /\ req.origin \in ByRefetchOrPoll
                          /\ queries'[key].data = <<req>>
                    \/ /\ queries'[key] = NoEntry
                       /\ Subscribers(hooks, key) = {}
                       /\ removalTimeouts[key].at = now
              /\ (queries[key].status # "uninitialized"
                     /\ queries'[key] # queries[key])
                 => \/ \E req \in Sent \cup Answered :
                          req.queryCacheKey = key
                    \/ queries'[key] = NoEntry]_vars

\* An order list with two subscribers holds data that a refetch brought,
\* after the first fetch had been answered.
C12_Witness ==
    \E key \in OrdersKeys :
        /\ Cardinality(Subscribers(hooks, key)) = 2
        /\ queries[key].status = "fulfilled"
        /\ queries[key].data[1].origin = "refetch"
        /\ requests[key] = 2

\* Two argument values are structurally equal: equal kind and text, and
\* every field has the same value in both, a missing field counting as
\* undefined.
FieldNames(arg) == {arg.fields[i].name : i \in DOMAIN arg.fields}

StructurallyEqual(a, b) ==
    /\ a.kind = b.kind
    /\ a.str = b.str
    /\ \A name \in FieldNames(a) \cup FieldNames(b) :
          Get(a, name) = Get(b, name)

Mounted == {c \in Components : hooks[c] # NoHook}

DashboardKey(period) ==
    defaultSerializeQueryArgs("getDashboardData", StringArg(period))

\* C14: a dashboard query for a period whose entry is being fetched or has
\* been fetched is served from that entry, without a request; a query for
\* the other period, not asked for before, sends a request of its own for
\* that period and gets an entry of its own, leaving the first entry as it
\* is. Every subscriber reads the entry of its own period.
C14_PerPeriodEntries ==
    /\ [](\A c \in Mounted :
            queries[hooks[c].queryCacheKey].originalArgs
                = hooks[c].originalArgs)
    /\ [][\A c \in Components \ Mounted, p \in Periods :
            hooks'[c].originalArgs = StringArg(p)
            => LET key == DashboardKey(p) IN
               /\ queries[key].status \in {"pending", "fulfilled"}
                  => /\ Sent = {}
                     /\ requests' = requests
                     /\ queries' = queries
               /\ queries[key].status = "uninitialized"
                  => /\ \E req \in Sent :
                           /\ req.queryCacheKey = key
                           /\ req.url = "/dashboard?period=" \o p
                     /\ requests'[key] = 1
                     /\ queries'[key].status = "pending"
                     /\ \A q \in Periods \ {p} :
                           /\ DashboardKey(q) # key
                           /\ queries'[DashboardKey(q)]
                                 = queries[DashboardKey(q)]]_vars

\* Both periods are subscribed to, "30d" after "7d" had been fetched: one
\* request and one entry each.
C14_Witness ==
    /\ hooks[1].originalArgs = StringArg("7d")
    /\ hooks[2].originalArgs = StringArg("30d")
    /\ queries[DashboardKey("7d")].status = "fulfilled"
    /\ queries[DashboardKey("30d")].status = "pending"
    /\ requests[DashboardKey("7d")] = 1
    /\ requests[DashboardKey("30d")] = 1

\* C15 as claimed: completion order wins. The entry of a key holds the
\* response to a request issued later, and now the response to a request
\* issued earlier arrives: the entry ends holding that response, the one
\* that completed last.
C15_CompletionOrderWins ==
    [][\A req \in inFlight :
        (/\ QueryFulfilled(req)
         /\ queries[req.queryCacheKey].status = "fulfilled"
         /\ queries[req.queryCacheKey].data[1].requestId > req.requestId)
        => queries'[req.queryCacheKey].data = <<req>>]_vars

\* The requests in flight that the entry of a key is waiting for.
CurrentInFlight(key) ==
    {req \in inFlight : req.queryCacheKey = key /\ Current(req)}

\* C15 as the code has it: issuance order wins. An entry waits for at most
\* one request, the last one issued for it, and for exactly one while it
\* is pending; a fulfilled entry holds the response to that request; and
\* the answer to any other request, whenever it arrives, changes nothing.
C15_IssuanceOrderWins ==
    /\ [](\A key \in DOMAIN queries :
            /\ Cardinality(CurrentInFlight(key)) <= 1
            /\ queries[key].status = "pending"
               <=> CurrentInFlight(key) # {}
            /\ queries[key].status = "fulfilled"
               => queries[key].data[1].requestId = queries[key].requestId)
    /\ [][\A req \in Answered :
            ~Current(req) => queries' = queries]_vars

\* Two requests for one key: the entry was removed while the first was in
\* flight and created again by a new subscription; the second request has
\* been answered and the entry holds its response, the first is still in
\* flight.
C15_Witness ==
    \E req \in inFlight :
        /\ req.requestId = 1
        /\ queries[req.queryCacheKey].status = "fulfilled"
        /\ queries[req.queryCacheKey].data[1].requestId = 2
        /\ Subscribers(hooks, req.queryCacheKey) # {}

\* The token local storage holds: an item under 'authToken' that is not
\* the empty string.
HoldsToken == localStorage["authToken"] \notin {NULL, ""}

\* C16: every request an endpoint sends carries 'Authorization: Bearer
\* <token>' exactly when local storage holds a token under 'authToken';
\* without a token the request is built and sent all the same, without the
\* header.
C16_BearerWhenStored ==
    /\ [](\A endpointName \in EndpointNames :
            \A arg \in RequestArgs(endpointName) :
               ENABLED SendRequest(endpointName, arg))
    /\ [][lastRequest' # lastRequest
          => /\ lastRequest'.request.method = "GET"
             /\ HoldsToken
                => lastRequest'.request.authorization
                      = "Bearer " \o localStorage["authToken"]
             /\ ~HoldsToken
                => lastRequest'.request.authorization = NULL]_vars

\* A request was sent with the token in its header, and one of another
\* endpoint can be sent now that the token has been removed.
C16_Witness ==
    /\ lastRequest.endpointName = "getReports"
    /\ lastRequest.request.authorization = "Bearer t0k3n"
    /\ localStorage["authToken"] = NULL

\* The interface table: path and query parameters of each endpoint.
InterfaceTable ==
    [getDashboardData |-> [path |-> "/dashboard", params |-> {"period"}],
     getOrders |-> [path |-> "/orders",
                    params |-> {"status", "dateRange", "page", "limit"}],
     getOrder |-> [path |-> "/orders/", params |-> {}],
     getProducts |-> [path |-> "/products",
                      params |-> {"page", "limit", "search"}],
     getClients |-> [path |-> "/clients",
                     params |-> {"page", "limit", "search", "type"}],
     getReports |-> [path |-> "/reports",
                     params |-> {"startDate", "endDate", "type"}]]

\* C19: each endpoint builds a GET request with the path of the interface
\* table; the dashboard's carries period, '30d' when no argument is given,
\* a single order's the id in the path, and the others carry exactly the
\* listed parameters the argument object defines, each once and with the
\* object's value: no other field of the object is sent.
C19_RequestShape ==
    lastRequest.endpointName # NULL
    => LET e == lastRequest.endpointName
           arg == lastRequest.arg
           r == lastRequest.request
       IN /\ r.method = "GET"
          /\ e = "getDashboardData"
             => /\ r.url = InterfaceTable[e].path \o "?period="
                              \o (IF arg.kind = "undefined" THEN "30d"
                                  ELSE arg.str)
                /\ r.params = <<>>
          /\ e = "getOrder"
             => r.url = InterfaceTable[e].path \o arg.str /\ r.params = <<>>
          /\ e \notin {"getDashboardData", "getOrder"}
             => /\ {<<r.params[i].name, r.params[i].value>> :
                        i \in DOMAIN r.params}
                     = {<<n, Get(arg, n)>> :
                          n \in {m \in InterfaceTable[e].params :
                                    Get(arg, m) # Undefined}}
                /\ \A i, j \in DOMAIN r.params :
                      r.params[i].name = r.params[j].name => i = j
                /\ r.url = InterfaceTable[e].path \o "?"
                              \o URLSearchParams(r.params)

\* The clients endpoint was called with an object that also has an
\* unlisted field: the four listed parameters are in the URL.
C19_Witness ==
    /\ lastRequest.endpointName = "getClients"
    /\ Get(lastRequest.arg, "extra") # Undefined
    /\ lastRequest.request.url = "/clients?page=2&limit=10&search=abc&type=vip"

\* C20: as long as no error event has been delivered the component
\* renders the original image with the given src and alt; after an error
\* event it renders the placeholder, which keeps the given src in
\* data-original-url.
C20_FallbackAfterError ==
    LET out == Render(image.props, image.didError) IN
    /\ image.errorEvents = 0
       => /\ out.tag = "img"
          /\ out.img.src = image.props.src
          /\ out.img.alt = image.props.alt
    /\ image.errorEvents > 0
       => /\ out.tag = "div"
          /\ out.img.src = ERROR_IMG_SRC
          /\ out.img.alt = "Error loading image"
          /\ out.img.dataOriginalUrl = image.props.src

\* The image failed to load and the placeholder is shown for it.
C20_Witness ==
    /\ image.errorEvents = 1
    /\ image.didError
    /\ image.props.src = "b.jpg"
    /\ Render(image.props, image.didError).img.dataOriginalUrl = "b.jpg"

\* A failed fetch is surfaced: the answer to the request an entry waits
\* for leaves the entry fulfilled or rejected; a rejected entry carries
\* the error, of either kind, a fulfilled one none, and the handle of every
\* subscriber shows the entry's error; the step that answers a request
\* sends none.
ErrorsSurfaced ==
    /\ [](\A c \in Mounted :
            LET entry == queries[hooks[c].queryCacheKey] IN
            /\ entry.status = "rejected" => QueryHandle(c).error \in Errors
            /\ entry.status = "fulfilled" => QueryHandle(c).error = NULL)
    /\ [][\A req \in Answered :
            /\ Sent = {}
            /\ Current(req)
               => LET old == queries[req.queryCacheKey]
                      new == queries'[req.queryCacheKey]
                  IN \/ new.status = "fulfilled"
                     \/ /\ new.status = "rejected"
                        /\ new.error \in Errors
                        /\ new.data = old.data]_vars

C18_DetailPanel ==
    /\ [](Sheet.open <=> (/\ MountedPage \in {"Orders", "Clients"}
                          /\ pageLocal.selected # NULL))
    /\ [](MountedPage \notin {"Orders", "Clients"}
            => pageLocal.selected = NULL)
    /\ [][(MountedPage' = MountedPage
             /\ IF pageLocal.selected = NULL
                THEN pageLocal'.selected # NULL
                ELSE pageLocal.selected # pageLocal'.selected)
            => /\ MountedPage \in {"Orders", "Clients"}
               /\ pageLocal' = [pageLocal EXCEPT
                                   !.selected = pageLocal'.selected]
               /\ \/ /\ \E i \in DOMAIN Rows :
                            Rows[i].id = pageLocal'.selected
                     /\ Sheet'.open
                     /\ Sheet'.record = pageLocal'.selected
                  \/ /\ Sheet.open
                     /\ pageLocal'.selected = NULL
                     /\ ~Sheet'.open]_vars

\* A filtered Orders or Clients list with the panel open on one of its rows.
C18_Witness ==
    /\ MountedPage \in {"Orders", "Clients"}
    /\ pageLocal.searchQuery # <<>>
    /\ Sheet.open
    /\ \E i \in DOMAIN Rows : Rows[i].id = Sheet.record


\* C21: getCurrentTheme returns 'dark' exactly when the document root has
\* the 'dark' class. A call of theme-utils toggleTheme flips the presence of
\* the class, leaves the rest of the root alone, and returns the theme read
\* after the call, which is the opposite of the one getCurrentTheme gave
\* before it; a second call gives back the root the first one started from.
C21_ToggleFlipsClass ==
    /\ [](getCurrentTheme(documentElement) = "dark"
            <=> documentElement.classDark)
    /\ [][utilsToggleTheme
            => /\ documentElement'.classDark = ~documentElement.classDark
               /\ documentElement'.dataTheme = documentElement.dataTheme
               /\ lastEvent'.arg = getCurrentTheme(documentElement')
               /\ lastEvent'.arg \in {"light", "dark"}
               /\ lastEvent'.arg # getCurrentTheme(documentElement)
               /\ toggleClass(documentElement') = documentElement]_vars

\* A call that removed the class and returned 'light'.
C21_Witness ==
    /\ lastEvent = Event("theme-utils.toggleTheme", "light")
    /\ ~documentElement.classDark
    /\ documentElement.dataTheme = "dark"


\* C24: in every settled state (Layout mounted and its theme effect run for
\* the current isDarkMode) the three views of the theme agree: isDarkMode is
\* true exactly when the document root has the 'dark' class, exactly when
\* data-theme is 'dark', whatever store theme actions and theme-utils
\* toggleTheme calls came before.
C24_ThemeViewsAgree ==
    Settled =>
        /\ ui.isDarkMode <=> documentElement.classDark
        /\ ui.isDarkMode <=> documentElement.dataTheme = "dark"


\* C22: formatToK gives the plain decimal string for values below 1000, and
\* K notation from 1000 on: '<n>K' for whole thousands (10000 -> '10K') and
\* one decimal digit after a decimal point for the others, as in the
\* documented example 7500 -> '7.5K'.
C22_KNotation ==
    tick.label # NULL =>
        /\ tick.value < 1000 => tick.label = ToString(tick.value)
        /\ tick.value = 10000 => tick.label = "10K"
        /\ (tick.value >= 1000 /\ tick.value % 1000 = 0)
              => tick.label = ToString(tick.value \div 1000) \o "K"
        /\ tick.value = 7500 => tick.label = "7.5K"
        /\ (tick.value >= 1000 /\ tick.value % 1000 # 0)
              => \E i \in 1..(MaxTickValue \div 1000 + 1), d \in 0..9 :
                    tick.label = ToString(i) \o "." \o ToString(d) \o "K"


\* C23: when the caller passes an onError prop and the original image fails
\* to load, the caller's handler is invoked, and the component switches to
\* the fallback.
C23_CallerOnErrorInvoked ==
    [][(/\ image'.errorEvents = image.errorEvents + 1
        /\ ~image.didError
        /\ image.props.onError)
       => /\ image'.onErrorCalls = image.onErrorCalls + 1
          /\ image'.didError]_vars


\* C27: once the component has recorded a load error it renders the fallback
\* for the rest of its lifetime: no later event, a render with another src
\* or a further error event among them, brings the original image element
\* back.
C27_FallbackIsFinal ==
    [][image.didError
       => /\ image'.didError
          /\ Render(image'.props, image'.didError).tag = "div"
          /\ Render(image'.props, image'.didError).img.src = ERROR_IMG_SRC]_vars

\* In the fallback after a load error of a.jpg, with the parent now passing
\* b.jpg and a further error event delivered.
C27_Witness ==
    /\ image.didError
    /\ image.errorEvents = MaxErrorEvents
    /\ image.props.src = "b.jpg"
    /\ Render(image.props, image.didError).img.dataOriginalUrl = "b.jpg"


\* C25: after any sequence of user interactions with the Layout (desktop and
\* mobile navigation clicks, overlay clicks, sidebar, theme and menu
\* toggles) currentPage is one of the seven page ids, so the page lookup
\* finds an own entry and its dashboard fallback is not taken.
C25_KnownPageAlways ==
    /\ ui.currentPage \in PageType
    /\ GetProperty(ui.currentPage) = PAGE_COMPONENTS[ui.currentPage]
    /\ PageComponent(ui.currentPage) = GetProperty(ui.currentPage)
    /\ currentPageComponent(ui.currentPage).kind = "page"

\* On the Design System page, reached from the mobile menu, after the theme
\* was toggled and the sidebar collapsed.
C25_Witness ==
    /\ ui.currentPage = "design-system"
    /\ lastEvent.type = "mobileNavClick"
    /\ ui.isDarkMode
    /\ ui.sidebarCollapsed
    /\ MountedPage = "DesignSystem"


\* C26: in every state in which the Layout is shown, exactly one navigation
\* item is drawn as active and it is the item of the page component the root
\* composition renders, whatever value currentPage holds, values outside
\* the seven page ids included.
C26_ActiveItemIsRenderedPage ==
    layoutMounted =>
        /\ Cardinality(ActiveItems(ui.currentPage)) = 1
        /\ \A id \in ActiveItems(ui.currentPage) :
              currentPageComponent(ui.currentPage)
                  = [kind |-> "page", component |-> PAGE_COMPONENTS[id]]


\* C26 (as the code has it): while the Layout is shown and currentPage is one
\* of the seven page ids, exactly one navigation item is drawn as active and
\* it is the item of the page component the root composition renders; for a
\* value outside the seven ids no item is drawn as active, whatever the root
\* composition renders for it.
C26_ActiveItemByEquality ==
    layoutMounted =>
        IF ui.currentPage \in PageType
        THEN /\ ActiveItems(ui.currentPage) = {ui.currentPage}
             /\ currentPageComponent(ui.currentPage)
                  = [kind |-> "page",
                     component |-> PAGE_COMPONENTS[ui.currentPage]]
        ELSE ActiveItems(ui.currentPage) = {}

\* The dashboard fallback is rendered for an unknown value and no item is
\* active.
C26_Witness ==
    /\ layoutMounted
    /\ ui.currentPage = "unknown-page"
    /\ MountedPage = "Dashboard"
    /\ ActiveItems(ui.currentPage) = {}


\* C28: two dashboard subscriptions whose requests have the same URL share
\* one cache entry and one network request: a subscription with the period
\* left out and one with the period '30d' read the same entry, and no two
\* requests for /dashboard?period=30d are in flight together.
C28_SameUrlOneRequest ==
    /\ \A c, d \in Mounted :
          fetchBaseQuery(hooks[c].endpointName, hooks[c].originalArgs,
                         localStorage).url
            = fetchBaseQuery(hooks[d].endpointName, hooks[d].originalArgs,
                             localStorage).url
          => hooks[c].queryCacheKey = hooks[d].queryCacheKey
    /\ \A r1, r2 \in inFlight : r1.url = r2.url => r1 = r2


\* C29: the auth token is read from local storage when each request is
\* prepared: every request sent, the first of a subscription, a refetch or
\* a poll, carries 'Bearer <token>' for the token stored at that moment and
\* no authorization header when none is stored then; an empty string counts
\* as none. What was stored when earlier requests were sent plays no part.
C29_TokenReadPerRequest ==
    [][\A req \in Sent :
          /\ HoldsToken
             => req.authorization = "Bearer " \o localStorage["authToken"]
          /\ ~HoldsToken => req.authorization = NULL]_vars

\* The third request of a subscription, sent by its poll timer with a token
\* stored after start-up, is in flight; the stored token has since been
\* replaced by the empty string.
C29_Witness ==
    /\ localStorage["authToken"] = ""
    /\ \E req \in inFlight :
          /\ req.origin = "poll"
          /\ req.requestId = MaxRequests
          /\ req.authorization = "Bearer t0k3n"

====
